---- MODULE Spec2Model ----
(***************************************************************************)
(* Orchestration and progress synchronisation of the IdeaSearch fitting    *)
(* demo: FittingEngine (src/src/core/fitting.py) and the inline fitting    *)
(* loops of the Streamlit tabs (src/app.py).                               *)
(*                                                                         *)
(* The search backend (IdeaSearcher / IdeaSearchFitter) is an external     *)
(* collaborator: every call into it either returns a value drawn from a    *)
(* small set or raises.  Scores are small naturals standing for the        *)
(* backend's floats; expressions are short strings.                        *)
(***************************************************************************)
EXTENDS Integers, Sequences, FiniteSets, TLC

\* ---------------------------------------------------------------- bounds
\* Largest cycle_num / unit_interaction_num a configuration may carry.
MaxCycles == 3
MaxEpochs == 2
\* Number of run_fitting invocations on one engine instance.
MaxRuns == 2
\* Retention ceiling of progress_frames (2000 in fitting.py:349), scaled.
FrameCeiling == 2
\* Retention ceiling of api_calls_log (1000 in fitting.py:470), scaled.
LogCeiling == 2

\* ------------------------------------------------------ environment sets
\* Values the backend's get_best_score() may return.
Scores == {0, 10, 85}
\* Values the backend's get_best_fit() may return ("" = no candidate).
Exprs == {"", "f1"}
\* shutdown_score values (the sidebar slider allows 0.0 .. 100.0).
ShutdownScores == {0, 80}
\* island_num values (the sidebar allows 1 .. 20).
IslandNums == {2}
\* Match counts a diary scan may produce.
DiaryCounts == {1}
\* Outcomes of ideasearcher.run(1).
StepOutcomes == {"ok", "raise", "interrupt"}
\* Outcomes of reading the diary in _update_api_calls: the path is None or
\* the file does not exist, the read raises, or the scan counts n matches.
DiaryOutcomes == {"absent", "error", "scanned"}

\* The collaborators of one engine instance (backend, diary, clients) are
\* explored one family of behaviours at a time.  A scenario fixes which of
\* their outcomes can occur during the life of the instance, and which
\* facade a client thread reads while the run is going on.  stop says when
\* a client calls stop_fitting: "running" (while run_fitting executes),
\* "idle" (before a run or between two runs) or "never".  The "policy"
\* scenario runs one more cycle than the others, so that the cycle index
\* comes back to a multiple of 3.
Scenarios ==
    {"steps", "queries", "rerun", "diary", "callback", "tabs",
     "reader", "poller", "policy", "prestop"}

EnvOf(s) ==
    CASE s = "steps" ->
            [runs |-> 1, drivers |-> {"engine"},
             steps |-> StepOutcomes, init_fail |-> TRUE,
             query_fail |-> FALSE, exprs |-> {"f1"}, scores |-> {10, 85},
             diary |-> {"absent"}, callback |-> FALSE, stop |-> "running",
             client |-> "none",
             cycles |-> 1..MaxCycles, epochs |-> 1..MaxEpochs,
             shutdown |-> ShutdownScores]
      [] s = "queries" ->
            [runs |-> 1, drivers |-> {"engine"},
             steps |-> {"ok"}, init_fail |-> FALSE,
             query_fail |-> TRUE, exprs |-> Exprs, scores |-> Scores,
             diary |-> {"absent"}, callback |-> FALSE, stop |-> "running",
             client |-> "none",
             cycles |-> 1..MaxCycles, epochs |-> 1..MaxEpochs,
             shutdown |-> ShutdownScores]
      [] s = "rerun" ->
            [runs |-> MaxRuns, drivers |-> {"engine"},
             steps |-> {"ok"}, init_fail |-> FALSE,
             query_fail |-> FALSE, exprs |-> {"f1"}, scores |-> {10, 85},
             diary |-> {"absent"}, callback |-> FALSE, stop |-> "running",
             client |-> "none",
             cycles |-> 1..MaxCycles, epochs |-> 1..MaxEpochs,
             shutdown |-> {80}]
      [] s = "diary" ->
            [runs |-> 1, drivers |-> {"engine"},
             steps |-> {"ok"}, init_fail |-> FALSE,
             query_fail |-> FALSE, exprs |-> {"f1"}, scores |-> {10},
             diary |-> DiaryOutcomes, callback |-> FALSE, stop |-> "never",
             client |-> "none",
             cycles |-> 1..MaxCycles, epochs |-> 1..MaxEpochs,
             shutdown |-> {80}]
      [] s = "tabs" ->
            [runs |-> 1, drivers |-> {"canvas", "npz"},
             steps |-> {"ok", "raise"}, init_fail |-> TRUE,
             query_fail |-> TRUE, exprs |-> Exprs, scores |-> Scores,
             diary |-> {"absent"}, callback |-> FALSE, stop |-> "never",
             client |-> "none",
             cycles |-> 1..MaxCycles, epochs |-> 1..MaxEpochs,
             shutdown |-> ShutdownScores]
      [] s = "reader" ->
            [runs |-> 1, drivers |-> {"engine"},
             steps |-> {"ok"}, init_fail |-> FALSE,
             query_fail |-> FALSE, exprs |-> {"f1"}, scores |-> Scores,
             diary |-> {"absent"}, callback |-> FALSE, stop |-> "never",
             client |-> "state",
             cycles |-> 1..MaxCycles, epochs |-> 1..MaxEpochs,
             shutdown |-> {80}]
      [] s = "poller" ->
            [runs |-> 1, drivers |-> {"engine"},
             steps |-> {"ok"}, init_fail |-> FALSE,
             query_fail |-> FALSE, exprs |-> {"f1"}, scores |-> {10},
             diary |-> {"absent"}, callback |-> FALSE, stop |-> "never",
             client |-> "frames",
             cycles |-> 1..MaxCycles, epochs |-> 1..MaxEpochs,
             shutdown |-> {80}]
      [] s = "policy" ->
            [runs |-> 1, drivers |-> {"engine", "canvas", "npz"},
             steps |-> {"ok"}, init_fail |-> FALSE,
             query_fail |-> FALSE, exprs |-> {"f1"}, scores |-> {10},
             diary |-> {"absent"}, callback |-> FALSE, stop |-> "never",
             client |-> "none",
             cycles |-> 1..(MaxCycles + 1), epochs |-> {1},
             shutdown |-> {80}]
      [] s = "prestop" ->
            [runs |-> MaxRuns, drivers |-> {"engine"},
             steps |-> {"ok"}, init_fail |-> FALSE,
             query_fail |-> FALSE, exprs |-> {"f1"}, scores |-> {10},
             diary |-> {"absent"}, callback |-> FALSE, stop |-> "idle",
             client |-> "none",
             cycles |-> 1..MaxCycles, epochs |-> 1..MaxEpochs,
             shutdown |-> {80}]
      [] OTHER ->
            [runs |-> 1, drivers |-> {"engine"},
             steps |-> {"ok", "raise"}, init_fail |-> FALSE,
             query_fail |-> FALSE, exprs |-> {"f1"}, scores |-> {10, 85},
             diary |-> {"absent"}, callback |-> TRUE, stop |-> "never",
             client |-> "none",
             cycles |-> 1..MaxCycles, epochs |-> 1..MaxEpochs,
             shutdown |-> {80}]

ConfigsOf(s) ==
    [cycle_num : EnvOf(s).cycles,
     unit_interaction_num : EnvOf(s).epochs,
     shutdown_score : EnvOf(s).shutdown,
     island_num : IslandNums]

\* Python's None for Optional[Dict] fields.
None == [none |-> TRUE]

VARIABLES
    scenario,           \* the family of collaborator behaviours
    config,             \* FittingEngine.config (fixed at construction)
    on_progress_update, \* TRUE when a progress callback is installed
    is_running, should_stop, current_cycle, total_cycles,
    best_score, best_expression, total_api_calls,
    api_calls_log, score_history,
    state_version, progress_frames, final_best,
    \* position of the orchestrating thread
    driver,             \* "none" | "engine" | "canvas" | "npz"
    pc,
    cycle, batch,       \* loop variables of run_fitting / the tab loops
    log_message,        \* local of run_fitting, "" | "ok" | "query_error"
    \* what a client thread got from its last call of the facade
    state_read,         \* get_state(): None or the fields it looks at
    frames_read,        \* get_progress_frames(V): None or [since, frames]
    \* history variables (not program state)
    run_no,             \* run_fitting invocations so far on this engine
    run,                \* bookkeeping of the current run
    ep                  \* bookkeeping of the current epoch attempt

engine_vars ==
    <<is_running, should_stop, current_cycle, total_cycles, best_score,
      best_expression, total_api_calls, api_calls_log, score_history,
      state_version, progress_frames, final_best>>

setup_vars == <<scenario, config>>

client_vars == <<state_read, frames_read>>

vars ==
    <<scenario, config, on_progress_update, is_running, should_stop,
      current_cycle, total_cycles, best_score, best_expression,
      total_api_calls, api_calls_log, score_history, state_version,
      progress_frames, final_best, driver, pc, cycle, batch, log_message,
      state_read, frames_read, run_no, run, ep>>

\* ------------------------------------------------------- history records
NewRun ==
    [steps |-> 0,          \* backend steps issued in this run
     failed_steps |-> 0,   \* steps that raised an ordinary exception
     threshold_epoch |-> FALSE, \* an epoch has reached its threshold test
                                \* with best_score >= shutdown_score
     threshold_cycle |-> 0,     \* current_cycle at that moment
     op_after_threshold |-> FALSE, \* a backend operation was issued later
     stop_checked |-> FALSE,    \* a checkpoint has seen should_stop set
     op_after_stop_checked |-> FALSE,
     steps_started_stopped |-> 0,  \* steps / repopulations issued while
     repops_started_stopped |-> 0, \* should_stop was already set
     final_created |-> 0,  \* times final_best was assigned in this run
     cycle_ops |-> <<>>,   \* backend operations of the current cycle, in
                           \* order, the steps after the first left out
     cycle_failed |-> 0,   \* steps of the current cycle that raised
     stop_calls |-> 0,     \* stop_fitting calls since the run's reset of
                           \* should_stop: 0, 1, or 2 for two and more
     stop_before |-> FALSE, \* should_stop was set when the run started
     surfaced |-> FALSE,   \* an exception reached the caller of the run
     callback_threshold |-> 0, \* current_cycle of an epoch whose callback
                           \* raised with best_score >= shutdown_score
     exit |-> "none"]      \* "completed" | "stopped" | "failed" | "aborted"

NewEpoch ==
    [active |-> FALSE,     \* an epoch attempt has been made in this run
     step |-> "none",      \* outcome of the step of the last attempt
     frames |-> 0,         \* frames appended by the last attempt
     records |-> 0,        \* audit records appended by the last attempt
     query_failed |-> FALSE,
     callback_raised |-> FALSE,
     diary |-> "none",     \* outcome of the diary read of the last attempt
     cycle |-> 0,          \* loop variables (cycle, batch) of the attempt
     batch |-> 0,
     calls0 |-> 0,         \* total_api_calls before the last attempt
     score0 |-> 0,         \* best_score / best_expression before it
     expr0 |-> ""]

\* ------------------------------------------------------------------ Init
\* FittingEngine.__init__
Env == EnvOf(scenario)

Init ==
    /\ scenario \in Scenarios
    /\ config \in ConfigsOf(scenario)
    /\ on_progress_update = FALSE
    /\ is_running = FALSE
    /\ should_stop = FALSE
    /\ current_cycle = 0
    /\ total_cycles = 0
    /\ best_score = 0
    /\ best_expression = ""
    /\ total_api_calls = 0
    /\ api_calls_log = <<>>
    /\ score_history = <<>>
    /\ state_version = 0
    /\ progress_frames = <<>>
    /\ final_best = None
    /\ driver = "none"
    /\ pc = "idle"
    /\ cycle = 0
    /\ batch = 0
    /\ log_message = ""
    /\ state_read = None
    /\ frames_read = None
    /\ run_no = 0
    /\ run = NewRun
    /\ ep = NewEpoch

\* --------------------------------------------------------------- helpers
\* Variant of RetentionHint that retains in the first cycle only.
RetentionHint_FirstOnly(c) == IF c = 0 THEN "retain" ELSE "discard"

\* fitting.py:291-294: the filter function is chosen from the cycle index.
RetentionHint(c) == IF c % 3 = 0 THEN "retain" ELSE "discard"

\* Variant of Repopulates that repopulates in every cycle.
Repopulates_Always(c) == c >= 0

\* fitting.py:297: repopulate on every cycle but the first.
Repopulates(c) == c # 0

\* Variant of TrimFrames that never evicts.
TrimFrames_NoEvict(frames) == frames

\* Variant of TrimFrames that keeps the oldest frames instead of the newest.
TrimFrames_KeepOldest(frames) ==
    IF Len(frames) > FrameCeiling
    THEN SubSeq(frames, 1, FrameCeiling)
    ELSE frames

\* fitting.py:349-350: keep only the most recent FrameCeiling frames.
TrimFrames(frames) ==
    IF Len(frames) > FrameCeiling
    THEN SubSeq(frames, Len(frames) - FrameCeiling + 1, Len(frames))
    ELSE frames

\* fitting.py:470-471: keep only the most recent LogCeiling records.
TrimLog(log) ==
    IF Len(log) > LogCeiling
    THEN SubSeq(log, Len(log) - LogCeiling + 1, Len(log))
    ELSE log

\* Variant of MakeFrame that numbers the frames within the run.
MakeFrame_RunLocalVersion ==
    [version |-> cycle * config.unit_interaction_num + batch + 1,
     cycle |-> current_cycle,
     epoch |-> batch + 1,
     total_epochs |-> config.unit_interaction_num,
     score |-> best_score,
     expression |-> best_expression,
     log_message |-> log_message]

\* fitting.py:337-346: the frame built for the current epoch.
MakeFrame ==
    [version |-> state_version + 1,
     cycle |-> current_cycle,
     epoch |-> batch + 1,
     total_epochs |-> config.unit_interaction_num,
     score |-> best_score,
     expression |-> best_expression,
     log_message |-> log_message]

\* Variant of MakeCallRecord that carries the counter as it was before the
\* diary was consulted.
MakeCallRecord_CountBefore(total) ==
    [cycle |-> current_cycle,
     expression |-> IF best_expression # "" THEN best_expression
                    ELSE "no_valid_expression_yet",
     score |-> best_score,
     total_api_calls |-> total_api_calls,
     status |-> IF best_expression # "" THEN "success" ELSE "no_expression"]

\* Variant of MakeCallRecord whose status is always "success".
MakeCallRecord_AlwaysSuccess(total) ==
    [cycle |-> current_cycle,
     expression |-> IF best_expression # "" THEN best_expression
                    ELSE "no_valid_expression_yet",
     score |-> best_score,
     total_api_calls |-> total,
     status |-> "success"]

\* fitting.py:455-466: the audit record built from the Run State.
MakeCallRecord(total) ==
    [cycle |-> current_cycle,
     expression |-> IF best_expression # "" THEN best_expression
                    ELSE "no_valid_expression_yet",
     score |-> best_score,
     total_api_calls |-> total,
     status |-> IF best_expression # "" THEN "success" ELSE "no_expression"]

\* fitting.py:415-451: the counter after the diary has been consulted.
ApiCallsAfter(total, outcome, n) ==
    CASE outcome = "scanned" -> n
      [] outcome = "error" ->
            total + config.unit_interaction_num * config.island_num
      [] OTHER -> total

\* fitting.py:405-411: the summary assigned to final_best.
MakeFinalBest ==
    [score |-> best_score,
     expression |-> best_expression,
     total_cycles |-> total_cycles,
     total_api_calls |-> total_api_calls]

\* Variant of ThresholdReached with a strict comparison.
ThresholdReached_Strict(score) == score > config.shutdown_score

\* fitting.py:360 and 385: the score threshold test.
ThresholdReached(score) == score >= config.shutdown_score

\* Variant of RecordsHistory that also records a score of zero.
RecordsHistory_NonNegative(score) == score >= 0

\* fitting.py:377: a cycle contributes its score only when positive.
RecordsHistory(score) == score > 0

\* Variant of AppendHistory that puts the new entry in front.
AppendHistory_Front(history, score) ==
    IF RecordsHistory(score) THEN <<score>> \o history ELSE history

\* fitting.py:377-378: score_history after the end of a cycle.
AppendHistory(history, score) ==
    IF RecordsHistory(score) THEN Append(history, score) ELSE history

\* Variant of AfterStopFitting that flips the flag.
AfterStopFitting_Toggle(flag) == ~flag

\* fitting.py:475: should_stop after stop_fitting().
AfterStopFitting(flag) == TRUE

\* Variant of AfterFailedStep that repeats the epoch.
AfterFailedStep_Retry(b) == b

\* fitting.py:308, 374: "continue" in the except clause takes the for loop
\* to its next value of batch.
AfterFailedStep(b) == b + 1

\* Bookkeeping: a backend operation is issued; kind is "retain" or
\* "discard" (set_filter_func), "repopulate" or "step".
Issue(r, kind) ==
    [r EXCEPT
        !.steps = @ + (IF kind = "step" THEN 1 ELSE 0),
        !.cycle_ops = IF kind = "step" /\ @ # <<>> /\ @[Len(@)] = "step"
                      THEN @ ELSE Append(@, kind),
        !.op_after_threshold = @ \/ r.threshold_epoch,
        !.op_after_stop_checked = @ \/ r.stop_checked,
        !.steps_started_stopped =
            @ + (IF kind = "step" /\ should_stop THEN 1 ELSE 0),
        !.repops_started_stopped =
            @ + (IF kind = "repopulate" /\ should_stop THEN 1 ELSE 0)]

\* ------------------------------------------- FittingEngine.run_fitting
\* Variant of RunFittingStart that leaves should_stop as it finds it.
RunFittingStart_KeepStop ==
    /\ pc = "idle"
    /\ driver \in {"none", "engine"}
    /\ "engine" \in Env.drivers
    /\ run_no < Env.runs
    /\ driver' = "engine"
    /\ is_running' = TRUE
    /\ current_cycle' = 0
    /\ total_cycles' = config.cycle_num
    /\ api_calls_log' = <<>>
    /\ score_history' = <<>>
    /\ pc' = "initialize"
    /\ run_no' = run_no + 1
    /\ run' = [NewRun EXCEPT !.stop_before = should_stop]
    /\ ep' = NewEpoch
    /\ UNCHANGED <<setup_vars, client_vars, on_progress_update, should_stop,
                   best_score, best_expression, total_api_calls,
                   state_version, progress_frames, final_best, cycle, batch,
                   log_message>>

\* fitting.py:264-272: the run's initialisation.
RunFittingStart ==
    /\ pc = "idle"
    /\ driver \in {"none", "engine"}
    /\ "engine" \in Env.drivers
    /\ run_no < Env.runs
    /\ driver' = "engine"
    /\ is_running' = TRUE
    /\ should_stop' = FALSE
    /\ current_cycle' = 0
    /\ total_cycles' = config.cycle_num
    /\ api_calls_log' = <<>>
    /\ score_history' = <<>>
    /\ pc' = "initialize"
    /\ run_no' = run_no + 1
    /\ run' = [NewRun EXCEPT !.stop_before = should_stop]
    /\ ep' = NewEpoch
    /\ UNCHANGED <<setup_vars, client_vars, on_progress_update, best_score, best_expression,
                   total_api_calls, state_version, progress_frames,
                   final_best, cycle, batch, log_message>>

\* fitting.py:275-276: initialize_fitter / initialize_searcher; a failure
\* is caught by the outer except (395) and falls through to finally.
InitializeBackend ==
    /\ pc = "initialize"
    /\ driver = "engine"
    /\ \E ok \in (IF Env.init_fail THEN BOOLEAN ELSE {TRUE}) :
        IF ok
        THEN /\ pc' = "cycle_check"
             /\ cycle' = 0
             /\ run' = run
        ELSE /\ pc' = "finally"
             /\ cycle' = cycle
             /\ run' = [run EXCEPT !.exit = "failed"]
    /\ UNCHANGED <<setup_vars, client_vars, on_progress_update, engine_vars, driver, batch,
                   log_message, run_no, ep>>

\* fitting.py:282-287: top of the cycle loop.
CycleCheck ==
    /\ pc = "cycle_check"
    /\ driver = "engine"
    /\ IF cycle >= config.cycle_num
       THEN /\ pc' = "finally"
            /\ run' = run
            /\ current_cycle' = current_cycle
       ELSE IF should_stop
       THEN /\ pc' = "finally"
            /\ run' = [run EXCEPT !.stop_checked = TRUE]
            /\ current_cycle' = current_cycle
       ELSE /\ pc' = "cycle_policy"
            /\ run' = [run EXCEPT !.cycle_ops = <<>>, !.cycle_failed = 0]
            /\ current_cycle' = cycle + 1
    /\ UNCHANGED <<setup_vars, client_vars, on_progress_update, is_running, should_stop,
                   total_cycles, best_score, best_expression,
                   total_api_calls, api_calls_log, score_history,
                   state_version, progress_frames, final_best, driver,
                   cycle, batch, log_message, run_no, ep>>

\* fitting.py:291-306: retention hint, repopulation, epoch loop set-up.
CyclePolicy ==
    /\ pc = "cycle_policy"
    /\ driver = "engine"
    /\ run' = IF Repopulates(cycle)
              THEN Issue(Issue(run, RetentionHint(cycle)), "repopulate")
              ELSE Issue(run, RetentionHint(cycle))
    /\ batch' = 0
    /\ pc' = "epoch_check"
    /\ UNCHANGED <<setup_vars, client_vars, on_progress_update, engine_vars, driver, cycle,
                   log_message, run_no, ep>>

\* Variant of EpochCheck that does not test should_stop.
EpochCheck_NoStop ==
    /\ pc = "epoch_check"
    /\ driver = "engine"
    /\ pc' = IF batch >= config.unit_interaction_num
             THEN "cycle_end" ELSE "step_call"
    /\ UNCHANGED <<setup_vars, client_vars, on_progress_update, engine_vars,
                   driver, cycle, batch, log_message, run_no, run, ep>>

\* fitting.py:308-311: top of the epoch loop.
EpochCheck ==
    /\ pc = "epoch_check"
    /\ driver = "engine"
    /\ IF batch >= config.unit_interaction_num
       THEN /\ pc' = "cycle_end"
            /\ run' = run
       ELSE IF should_stop
       THEN /\ pc' = "cycle_end"
            /\ run' = [run EXCEPT !.stop_checked = TRUE]
       ELSE /\ pc' = "step_call"
            /\ run' = run
    /\ UNCHANGED <<setup_vars, client_vars, on_progress_update, engine_vars, driver, cycle,
                   batch, log_message, run_no, ep>>

\* fitting.py:313-316: the backend step is invoked.
StepCall ==
    /\ pc = "step_call"
    /\ driver = "engine"
    /\ pc' = "in_step"
    /\ run' = Issue(run, "step")
    /\ ep' = [NewEpoch EXCEPT !.active = TRUE, !.step = "pending",
                              !.cycle = cycle, !.batch = batch,
                              !.calls0 = total_api_calls,
                              !.score0 = best_score,
                              !.expr0 = best_expression]
    /\ UNCHANGED <<setup_vars, client_vars, on_progress_update, engine_vars, driver, cycle,
                   batch, log_message, run_no>>

\* fitting.py:316, 364-374: the step returns, raises an ordinary exception
\* (skip the epoch, continue) or is interrupted from the keyboard.
StepReturn ==
    /\ pc = "in_step"
    /\ driver = "engine"
    /\ \E o \in Env.steps :
        /\ ep' = [ep EXCEPT !.step = o]
        /\ CASE o = "ok" ->
                  /\ pc' = "query_fit"
                  /\ log_message' = ""
                  /\ batch' = batch
                  /\ should_stop' = should_stop
                  /\ run' = run
             [] o = "raise" ->
                  /\ pc' = "epoch_check"
                  /\ log_message' = log_message
                  /\ batch' = AfterFailedStep(batch)
                  /\ should_stop' = should_stop
                  /\ run' = [run EXCEPT !.failed_steps = @ + 1,
                                         !.cycle_failed = @ + 1]
             [] OTHER ->
                  /\ pc' = "cycle_end"
                  /\ log_message' = log_message
                  /\ batch' = batch
                  /\ should_stop' = TRUE
                  /\ run' = run
    /\ UNCHANGED <<setup_vars, client_vars, on_progress_update, is_running, current_cycle,
                   total_cycles, best_score, best_expression,
                   total_api_calls, api_calls_log, score_history,
                   state_version, progress_frames, final_best, driver,
                   cycle, run_no>>

\* fitting.py:321, 328-330: best_expression is assigned from the fitter; a
\* raising query leaves the inner try at once.
QueryBestFit ==
    /\ pc = "query_fit"
    /\ driver = "engine"
    /\ \E ok \in (IF Env.query_fail THEN BOOLEAN ELSE {TRUE}), e \in Env.exprs :
        IF ok
        THEN /\ best_expression' = e
             /\ pc' = "query_score"
             /\ log_message' = log_message
             /\ ep' = ep
        ELSE /\ best_expression' = best_expression
             /\ pc' = "update_api_calls"
             /\ log_message' = "query_error"
             /\ ep' = [ep EXCEPT !.query_failed = TRUE]
    /\ UNCHANGED <<setup_vars, client_vars, on_progress_update, is_running, should_stop,
                   current_cycle, total_cycles, best_score, total_api_calls,
                   api_calls_log, score_history, state_version,
                   progress_frames, final_best, driver, cycle, batch,
                   run_no, run>>

\* fitting.py:322-330: best_score is assigned from the searcher.
QueryBestScore ==
    /\ pc = "query_score"
    /\ driver = "engine"
    /\ \E ok \in (IF Env.query_fail THEN BOOLEAN ELSE {TRUE}), s \in Env.scores :
        IF ok
        THEN /\ best_score' = s
             /\ log_message' = "ok"
             /\ ep' = ep
        ELSE /\ best_score' = best_score
             /\ log_message' = "query_error"
             /\ ep' = [ep EXCEPT !.query_failed = TRUE]
    /\ pc' = "update_api_calls"
    /\ UNCHANGED <<setup_vars, client_vars, on_progress_update, is_running, should_stop,
                   current_cycle, total_cycles, best_expression,
                   total_api_calls, api_calls_log, score_history,
                   state_version, progress_frames, final_best, driver,
                   cycle, batch, run_no, run>>

\* fitting.py:413-471: FittingEngine._update_api_calls.
UpdateApiCalls ==
    /\ pc = "update_api_calls"
    /\ driver = "engine"
    /\ \E d \in Env.diary, n \in DiaryCounts :
        /\ total_api_calls' = ApiCallsAfter(total_api_calls, d, n)
        /\ api_calls_log' =
             TrimLog(Append(api_calls_log, MakeCallRecord(total_api_calls')))
        /\ ep' = [ep EXCEPT !.records = @ + 1, !.diary = d]
    /\ pc' = "frame_append"
    /\ UNCHANGED <<setup_vars, client_vars, on_progress_update, is_running,
                   should_stop, current_cycle, total_cycles, best_score,
                   best_expression, score_history, state_version,
                   progress_frames, final_best, driver, cycle, batch,
                   log_message, run_no, run>>

\* fitting.py:337-347: the frame is built and appended.
FrameAppend ==
    /\ pc = "frame_append"
    /\ driver = "engine"
    /\ progress_frames' = Append(progress_frames, MakeFrame)
    /\ pc' = "frame_trim"
    /\ ep' = [ep EXCEPT !.frames = @ + 1]
    /\ UNCHANGED <<setup_vars, client_vars, on_progress_update, is_running, should_stop,
                   current_cycle, total_cycles, best_score, best_expression,
                   total_api_calls, api_calls_log, score_history,
                   state_version, final_best, driver, cycle, batch,
                   log_message, run_no, run>>

\* fitting.py:349-350: the buffer is cut back to its ceiling.
FrameTrim ==
    /\ pc = "frame_trim"
    /\ driver = "engine"
    /\ progress_frames' = TrimFrames(progress_frames)
    /\ pc' = "version_bump"
    /\ UNCHANGED <<setup_vars, client_vars, on_progress_update, is_running,
                   should_stop, current_cycle, total_cycles, best_score,
                   best_expression, total_api_calls, api_calls_log,
                   score_history, state_version, final_best, driver, cycle,
                   batch, log_message, run_no, run, ep>>

\* fitting.py:351: state_version += 1.
VersionBump ==
    /\ pc = "version_bump"
    /\ driver = "engine"
    /\ state_version' = state_version + 1
    /\ pc' = "epoch_tail"
    /\ UNCHANGED <<setup_vars, client_vars, on_progress_update, is_running, should_stop,
                   current_cycle, total_cycles, best_score, best_expression,
                   total_api_calls, api_calls_log, score_history,
                   progress_frames, final_best, driver, cycle, batch,
                   log_message, run_no, run, ep>>

\* fitting.py:355-374: progress callback, then the threshold test; an
\* exception of the callback is caught by the epoch's except (368-374).
EpochTail ==
    /\ pc = "epoch_tail"
    /\ driver = "engine"
    /\ \E raises \in (IF on_progress_update THEN BOOLEAN ELSE {FALSE}) :
        /\ ep' = [ep EXCEPT !.callback_raised = raises]
        /\ IF raises
           THEN /\ batch' = AfterFailedStep(batch)
                /\ pc' = "epoch_check"
           ELSE IF ThresholdReached(best_score)
           THEN /\ batch' = batch
                /\ pc' = "cycle_end"
           ELSE /\ batch' = batch + 1
                /\ pc' = "epoch_check"
        /\ run' = IF best_score >= config.shutdown_score
                  THEN IF raises
                       THEN [run EXCEPT
                               !.callback_threshold = current_cycle]
                       ELSE [run EXCEPT !.threshold_epoch = TRUE,
                                        !.threshold_cycle = current_cycle]
                  ELSE run
    /\ UNCHANGED <<setup_vars, client_vars, on_progress_update, engine_vars,
                   driver, cycle, log_message, run_no>>

\* fitting.py:376-386: score history and the cycle-level threshold test.
CycleEnd ==
    /\ pc = "cycle_end"
    /\ driver = "engine"
    /\ score_history' = AppendHistory(score_history, best_score)
    /\ IF ThresholdReached(best_score)
       THEN /\ pc' = "finally"
            /\ cycle' = cycle
       ELSE /\ pc' = "cycle_check"
            /\ cycle' = cycle + 1
    /\ UNCHANGED <<setup_vars, client_vars, on_progress_update, is_running, should_stop,
                   current_cycle, total_cycles, best_score, best_expression,
                   total_api_calls, api_calls_log, state_version,
                   progress_frames, final_best, driver, batch, log_message,
                   run_no, run, ep>>

\* fitting.py:388-411: the run's epilogue; the finally block runs on every
\* exit of the try, the failed one included.
Finally ==
    /\ pc = "finally"
    /\ driver = "engine"
    /\ is_running' = FALSE
    /\ final_best' = MakeFinalBest
    /\ pc' = "idle"
    /\ run' = [run EXCEPT
                 !.final_created = @ + 1,
                 \* the outer except (395-400) prints and swallows
                 !.surfaced = FALSE,
                 !.exit = IF @ = "failed" THEN "failed"
                          ELSE IF should_stop THEN "stopped"
                          ELSE "completed"]
    /\ UNCHANGED <<setup_vars, client_vars, on_progress_update, should_stop, current_cycle,
                   total_cycles, best_score, best_expression,
                   total_api_calls, api_calls_log, score_history,
                   state_version, progress_frames, driver, cycle, batch,
                   log_message, run_no, ep>>

\* fitting.py:473-475: FittingEngine.stop_fitting, callable at any time.
StopFitting ==
    /\ driver \in {"none", "engine"}
    /\ \/ Env.stop = "running" /\ pc # "idle"
       \/ Env.stop = "idle" /\ pc = "idle"
    /\ should_stop' = AfterStopFitting(should_stop)
    /\ run' = [run EXCEPT !.stop_calls = IF @ < 2 THEN @ + 1 ELSE @]
    /\ UNCHANGED <<setup_vars, client_vars, on_progress_update, is_running,
                   current_cycle, total_cycles, best_score, best_expression,
                   total_api_calls, api_calls_log, score_history,
                   state_version, progress_frames, final_best, driver, pc,
                   cycle, batch, log_message, run_no, ep>>

\* fitting.py:67: a client installs on_progress_update between runs.
SetProgressCallback ==
    /\ pc = "idle"
    /\ driver \in {"none", "engine"}
    /\ ~on_progress_update
    /\ Env.callback
    /\ on_progress_update' = TRUE
    /\ UNCHANGED <<setup_vars, client_vars, engine_vars, driver, pc, cycle, batch,
                   log_message, run_no, run, ep>>

\* ------------------------------------------- the facade read by clients
\* fitting.py:477-498: FittingEngine.get_state (elapsed_time left out).
GetState ==
    [is_running |-> is_running,
     current_cycle |-> current_cycle,
     total_cycles |-> total_cycles,
     best_score |-> best_score,
     best_expression |-> best_expression,
     total_api_calls |-> total_api_calls,
     api_calls_log |-> api_calls_log,
     score_history |-> score_history,
     state_version |-> state_version,
     last_frame |-> IF progress_frames # <<>>
                    THEN progress_frames[Len(progress_frames)] ELSE None]

\* Variant of GetProgressFrames that also returns the frame of version V.
GetProgressFrames_Inclusive(since_version) ==
    IF since_version = None
    THEN progress_frames
    ELSE SelectSeq(progress_frames,
                   LAMBDA f : f.version >= since_version.value)

\* fitting.py:521-533: FittingEngine.get_progress_frames.  since_version is
\* None or [value |-> V].
GetProgressFrames(since_version) ==
    IF since_version = None
    THEN progress_frames
    ELSE SelectSeq(progress_frames,
                   LAMBDA f : f.version > since_version.value)

\* A client thread calls get_state() at any moment and keeps the score,
\* the version and the last frame it was given, together with the run the
\* read fell in.
GetStateCall ==
    /\ Env.client = "state"
    /\ state_read' = [run_no |-> run_no,
                      best_score |-> GetState.best_score,
                      state_version |-> GetState.state_version,
                      last_frame |-> GetState.last_frame]
    /\ state_read' # state_read
    /\ UNCHANGED <<setup_vars, frames_read, on_progress_update, engine_vars,
                   driver, pc, cycle, batch, log_message, run_no, run, ep>>

\* A client thread calls get_progress_frames(V) at any moment, with None or
\* with any version number, issued, evicted or not yet issued.
GetProgressFramesCall ==
    /\ Env.client = "frames"
    /\ \E since_version \in
            {None} \cup {[value |-> v] : v \in 0..(state_version + 1)} :
        frames_read' = [since |-> since_version,
                        frames |-> GetProgressFrames(since_version)]
    /\ frames_read' # frames_read
    /\ UNCHANGED <<setup_vars, state_read, on_progress_update, engine_vars,
                   driver, pc, cycle, batch, log_message, run_no, run, ep>>

\* ------------------------------------- the inline loops of src/app.py
\* The canvas tab (app.py:126-226) and the NPZ tab (app.py:362-486) drive a
\* freshly constructed engine from the Streamlit script thread, without
\* run_fitting.  Nothing else touches the engine while the script runs.

\* app.py:127-140 / 363-372: construct, initialise, mark running.  A failing
\* initialisation propagates out of the script before is_running is set.
TabStart ==
    /\ pc = "idle"
    /\ driver = "none"
    /\ \E d \in Env.drivers \ {"engine"} :
       \E ok \in (IF Env.init_fail THEN BOOLEAN ELSE {TRUE}) :
        /\ driver' = d
        /\ IF ok
           THEN /\ is_running' = TRUE
                /\ pc' = "tab_cycle"
                /\ run' = NewRun
           ELSE /\ is_running' = is_running
                /\ pc' = "aborted"
                /\ run' = [NewRun EXCEPT !.exit = "aborted",
                                         !.surfaced = TRUE]
    /\ cycle' = 0
    /\ ep' = NewEpoch
    /\ UNCHANGED <<setup_vars, client_vars, on_progress_update, should_stop,
                   current_cycle, total_cycles, best_score, best_expression,
                   total_api_calls, api_calls_log, score_history,
                   state_version, progress_frames, final_best, batch,
                   log_message, run_no>>

\* app.py:149-162 / 382-395: head of a cycle.
TabCycleStart ==
    /\ pc = "tab_cycle"
    /\ IF cycle >= config.cycle_num
       THEN /\ pc' = "tab_finish"
            /\ current_cycle' = current_cycle
            /\ run' = run
       ELSE /\ pc' = "tab_epoch"
            /\ current_cycle' = cycle + 1
            /\ run' =
                 LET r == [run EXCEPT !.cycle_ops = <<>>,
                                      !.cycle_failed = 0]
                 IN IF Repopulates(cycle)
                    THEN Issue(Issue(r, RetentionHint(cycle)), "repopulate")
                    ELSE Issue(r, RetentionHint(cycle))
    /\ batch' = 0
    /\ UNCHANGED <<setup_vars, client_vars, on_progress_update, is_running,
                   should_stop, total_cycles, best_score, best_expression,
                   total_api_calls, api_calls_log, score_history,
                   state_version, progress_frames, final_best, driver,
                   cycle, log_message, run_no, ep>>

\* app.py:171-175 / 405-409: both queries under one try; the bare except
\* resets expression and score.
TabQuery(fit_ok, e, score_ok, s) ==
    IF fit_ok /\ score_ok
    THEN [expression |-> e, score |-> s]
    ELSE [expression |-> "", score |-> 0]

\* app.py:165-212 (canvas: the step is outside any try, an exception ends
\* the script) / 398-472 (NPZ: the epoch's except logs and continues).
TabEpoch ==
    /\ pc = "tab_epoch"
    /\ IF batch >= config.unit_interaction_num
       THEN /\ pc' = "tab_cycle_end"
            /\ UNCHANGED <<best_score, best_expression, batch, run, ep>>
       ELSE \E o \in Env.steps,
               fit_ok \in (IF Env.query_fail THEN BOOLEAN ELSE {TRUE}),
               score_ok \in (IF Env.query_fail THEN BOOLEAN ELSE {TRUE}),
               e \in Env.exprs, s \in Env.scores :
            LET q == TabQuery(fit_ok, e, score_ok, s)
                started == [NewEpoch EXCEPT !.active = TRUE, !.step = o,
                                            !.cycle = cycle,
                                            !.batch = batch,
                                            !.calls0 = total_api_calls,
                                            !.score0 = best_score,
                                            !.expr0 = best_expression]
            IN
            IF o = "ok"
            THEN /\ best_expression' = q.expression
                 /\ best_score' = q.score
                 /\ ep' = [started EXCEPT
                             !.query_failed = ~(fit_ok /\ score_ok)]
                 /\ run' = IF q.score >= config.shutdown_score
                           THEN [Issue(run, "step") EXCEPT
                                    !.threshold_epoch = TRUE,
                                    !.threshold_cycle = current_cycle]
                           ELSE Issue(run, "step")
                 /\ IF ThresholdReached(q.score)
                    THEN /\ pc' = "tab_cycle_end"
                         /\ batch' = batch
                    ELSE /\ pc' = "tab_epoch"
                         /\ batch' = batch + 1
            ELSE /\ UNCHANGED <<best_score, best_expression>>
                 /\ ep' = started
                 /\ IF driver = "canvas"
                    THEN /\ pc' = "aborted"
                         /\ batch' = batch
                         /\ run' = [Issue(run, "step") EXCEPT
                                      !.failed_steps = @ + 1,
                                      !.cycle_failed = @ + 1,
                                      !.surfaced = TRUE,
                                      !.exit = "aborted"]
                    ELSE /\ pc' = "tab_epoch"
                         /\ batch' = batch + 1
                         /\ run' = [Issue(run, "step") EXCEPT
                                      !.failed_steps = @ + 1,
                                      !.cycle_failed = @ + 1]
    /\ UNCHANGED <<setup_vars, client_vars, on_progress_update, is_running,
                   should_stop, current_cycle, total_cycles,
                   total_api_calls, api_calls_log, score_history,
                   state_version, progress_frames, final_best, driver,
                   cycle, log_message, run_no>>

\* app.py:214-220 / 474-480: score history and cycle-level threshold test.
TabCycleEnd ==
    /\ pc = "tab_cycle_end"
    /\ score_history' = AppendHistory(score_history, best_score)
    /\ IF ThresholdReached(best_score)
       THEN /\ pc' = "tab_finish"
            /\ cycle' = cycle
       ELSE /\ pc' = "tab_cycle"
            /\ cycle' = cycle + 1
    /\ UNCHANGED <<setup_vars, client_vars, on_progress_update, is_running,
                   should_stop, current_cycle, total_cycles, best_score,
                   best_expression, total_api_calls, api_calls_log,
                   state_version, progress_frames, final_best, driver,
                   batch, log_message, run_no, run, ep>>

\* app.py:223-224 / 483-484: the loop is over.
TabFinish ==
    /\ pc = "tab_finish"
    /\ is_running' = FALSE
    /\ pc' = "tab_done"
    /\ run' = [run EXCEPT !.exit = "completed"]
    /\ UNCHANGED <<setup_vars, client_vars, on_progress_update, should_stop,
                   current_cycle, total_cycles, best_score, best_expression,
                   total_api_calls, api_calls_log, score_history,
                   state_version, progress_frames, final_best, driver,
                   cycle, batch, log_message, run_no, ep>>

Next ==
    \/ RunFittingStart
    \/ InitializeBackend
    \/ CycleCheck
    \/ CyclePolicy
    \/ EpochCheck
    \/ StepCall
    \/ StepReturn
    \/ QueryBestFit
    \/ QueryBestScore
    \/ UpdateApiCalls
    \/ FrameAppend
    \/ FrameTrim
    \/ VersionBump
    \/ EpochTail
    \/ CycleEnd
    \/ Finally
    \/ StopFitting
    \/ SetProgressCallback
    \/ GetStateCall
    \/ GetProgressFramesCall
    \/ TabStart
    \/ TabCycleStart
    \/ TabEpoch
    \/ TabCycleEnd
    \/ TabFinish

Spec == Init /\ [][Next]_vars

\* The steps of the thread that executes run_fitting, once called.
RunFittingStep ==
    \/ InitializeBackend
    \/ CycleCheck
    \/ CyclePolicy
    \/ EpochCheck
    \/ StepCall
    \/ StepReturn
    \/ QueryBestFit
    \/ QueryBestScore
    \/ UpdateApiCalls
    \/ FrameAppend
    \/ FrameTrim
    \/ VersionBump
    \/ EpochTail
    \/ CycleEnd
    \/ Finally

\* The thread of run_fitting keeps running, and every call it makes into
\* the backend returns or raises.
LiveSpec == Spec /\ WF_vars(RunFittingStep)

\* ================================================================ claims
Last(seq) == seq[Len(seq)]

\* The orchestrating thread is between runs, a run having taken place.
EngineRunOver == driver = "engine" /\ pc = "idle" /\ run_no > 0

\* The last epoch attempt is over: control has left the epoch's try block.
EpochOver ==
    /\ ep.active
    /\ pc \notin {"in_step", "query_fit", "query_score", "update_api_calls",
                  "frame_append", "frame_trim", "version_bump",
                  "epoch_tail"}

ConfiguredSteps == config.cycle_num * config.unit_interaction_num

\* C1: the versions of the frames held in progress_frames rise by exactly
\* one from each frame to the next (so no two frames share a version), also
\* after eviction and across runs; appending a frame raises state_version
\* by exactly one: outside the window between the append and the increment
\* the newest frame's version equals state_version, and inside it the
\* newest frame's version is state_version + 1.
C1_FrameVersionsConsecutive ==
    /\ \A i \in 1..(Len(progress_frames) - 1) :
          progress_frames[i + 1].version = progress_frames[i].version + 1
    /\ progress_frames = <<>> => state_version = 0
    /\ (progress_frames # <<>> /\ pc \notin {"frame_trim", "version_bump"}) =>
          Last(progress_frames).version = state_version
    /\ pc \in {"frame_trim", "version_bump"} =>
          Last(progress_frames).version = state_version + 1

\* C1 witness: a second run has appended frames after the buffer evicted
\* the oldest ones.
C1_Witness ==
    /\ run_no = 2
    /\ pc = "epoch_check"
    /\ ep.frames = 1
    /\ Len(progress_frames) = FrameCeiling
    /\ progress_frames[1].version > 1

\* C2: when a backend step raises an ordinary exception, the run is not cut
\* short: if no stop was requested and the threshold is not reached, a run
\* that is over has invoked the step in every configured epoch.
C2_StepFailureCapsNothing ==
    (/\ pc \in {"idle", "tab_done", "aborted"}
     /\ run.failed_steps > 0
     /\ ~should_stop
     /\ ~(best_score >= config.shutdown_score))
    => run.steps = ConfiguredSteps

\* C3: an epoch whose backend step failed has appended exactly one audit
\* record to api_calls_log.
C3_FailedEpochHasAuditRecord ==
    (driver = "engine" /\ EpochOver /\ ep.step = "raise")
    => (ep.records = 1 /\ api_calls_log # <<>>)

\* C4: every epoch attempt, its step having returned or raised, has
\* appended exactly one progress frame by the time it is over.
C4_EveryAttemptHasFrame ==
    (driver = "engine" /\ EpochOver /\ ep.step \in {"ok", "raise"})
    => ep.frames = 1

\* C5: an epoch in which a best-expression or best-score query failed
\* leaves best_score and best_expression as they were before the epoch.
C5_QueryFailureKeepsBest ==
    (driver = "engine" /\ ep.query_failed) =>
        (best_score = ep.score0 /\ best_expression = ep.expr0)

C7_NoOperationStartsAfterStop ==
    run.steps_started_stopped = 0 /\ run.repops_started_stopped = 0

\* C7 (amended): should_stop is tested at the top of every cycle and every
\* epoch.  Once a checkpoint has found it set, no backend operation is
\* issued in that run and control is on its way out of both loops.  Between
\* the stop request and that checkpoint at most one operation whose own
\* checkpoint had already been passed is issued: one backend step, or the
\* repopulation of one cycle.
C7_StopHonouredAtNextCheckpoint ==
    /\ run.steps_started_stopped + run.repops_started_stopped <= 1
    /\ run.stop_checked =>
          /\ ~run.op_after_stop_checked
          /\ pc \in {"cycle_end", "cycle_check", "finally", "idle"}

\* C7 witness: a run ended by a stop request before all configured steps
\* were issued.
C7_Witness ==
    /\ EngineRunOver
    /\ run.stop_checked
    /\ run.exit = "stopped"
    /\ run.steps >= 1
    /\ run.steps < ConfiguredSteps

\* C8: while a run of run_fitting is in progress get_final_best() returns
\* None, and final_best is assigned at most once per run.
C8_NoFinalResultWhileRunning ==
    /\ (driver = "engine" /\ is_running) => final_best = None
    /\ run.final_created <= 1

\* C9: a run that ended Failed has produced no Final Result, and a run that
\* ended Completed or Stopped has produced one.
C9_FailedRunHasNoFinalResult ==
    /\ (EngineRunOver /\ run_no = 1 /\ run.exit = "failed")
          => final_best = None
    /\ (EngineRunOver /\ run.exit \in {"completed", "stopped"})
          => final_best # None

\* C10: a run in which every backend step raised, and which no stop
\* request ended, has attempted the step cycle_num x unit_interaction_num
\* times and has produced a Final Result.
C10_AllStepsAttemptedDespiteFailures ==
    (/\ EngineRunOver
     /\ run.exit = "completed"
     /\ run.failed_steps = run.steps)
    => (run.steps = ConfiguredSteps /\ final_best # None)

\* C11: within a single run, two successive reads of get_state() never show
\* best_score going down, whatever the backend reports.
C11_BestScoreNeverRegresses ==
    [][(/\ state_read # None
        /\ state_read' # state_read
        /\ state_read.run_no > 0
        /\ state_read'.run_no = state_read.run_no)
       => state_read'.best_score >= state_read.best_score]_vars

\* A sequence is an initial part of another.
IsPrefix(a, b) == Len(a) <= Len(b) /\ SubSeq(b, 1, Len(a)) = a

\* The step that closes a cycle is being taken.
CycleEndStep == pc \in {"cycle_end", "tab_cycle_end"} /\ pc' # pc

C13_FailedCycleAddsNoHistory ==
    [][(/\ driver = "engine"
        /\ CycleEndStep
        /\ run.cycle_failed = config.unit_interaction_num)
       => score_history' = score_history]_vars

\* C14: the step that closes a cycle appends best_score to score_history
\* if and only if best_score > 0 and changes nothing else in it; nothing
\* but that step and the start of a run changes score_history, so a cycle
\* appends at most one entry; every entry of score_history is > 0.
C14_HistoryEntryIffPositive ==
    /\ [](\A i \in 1..Len(score_history) : score_history[i] > 0)
    /\ [][CycleEndStep =>
            score_history' = IF best_score > 0
                             THEN Append(score_history, best_score)
                             ELSE score_history]_vars
    /\ [][score_history' # score_history =>
            (CycleEndStep \/ run_no' # run_no)]_vars

\* C14 witness: two cycles are over, the first ended with best_score = 0 and
\* added nothing, the second ended with a positive score and added it.
C14_Witness ==
    /\ driver = "engine"
    /\ pc = "cycle_check"
    /\ cycle = 2
    /\ run.failed_steps = config.unit_interaction_num
    /\ score_history = <<10>>

\* C15: at every epoch boundary progress_frames holds at most FrameCeiling
\* frames (one more only between the append and the cut), and they are
\* exactly the most recent ones: versions state_version - len + 1 up to
\* state_version, len being the smaller of FrameCeiling and the number of
\* frames ever appended; the cut drops frames from the front only, and a
\* frame that stays in the buffer is never altered.
C15_FrameBufferBounded ==
    /\ [](Len(progress_frames) <=
            FrameCeiling + (IF pc = "frame_trim" THEN 1 ELSE 0))
    /\ [](pc \notin {"frame_trim", "version_bump"} =>
            /\ Len(progress_frames) =
                 (IF state_version < FrameCeiling
                  THEN state_version ELSE FrameCeiling)
            /\ \A i \in 1..Len(progress_frames) :
                 progress_frames[i].version =
                     state_version - Len(progress_frames) + i)
    /\ [][(pc = "frame_trim" /\ pc' # pc) =>
            \E k \in 0..Len(progress_frames) :
                /\ progress_frames' =
                     SubSeq(progress_frames, k + 1, Len(progress_frames))
                /\ Len(progress_frames') <= FrameCeiling
                /\ k > 0 => Len(progress_frames') = FrameCeiling]_vars
    /\ [][~(pc = "frame_trim" /\ pc' # pc) =>
            IsPrefix(progress_frames, progress_frames')]_vars

\* C15 witness: an epoch boundary at which the buffer is full and its two
\* oldest frames have been evicted.
C15_Witness ==
    /\ pc = "epoch_tail"
    /\ Len(progress_frames) = FrameCeiling
    /\ progress_frames[1].version = 3
    /\ state_version = FrameCeiling + 2

\* C16: a call get_progress_frames(V) returns the frames of the buffer
\* whose version is greater than V, each once, in ascending version order;
\* all of the buffer when V is None, and all of the buffer when V is below
\* the oldest retained version; the call leaves progress_frames and
\* state_version as they were.
C16_FramesSinceVersion ==
    [][frames_read' # frames_read =>
        LET V == frames_read'.since
            got == frames_read'.frames
            Newer == {i \in 1..Len(progress_frames) :
                        V = None \/ progress_frames[i].version > V.value}
        IN  /\ progress_frames' = progress_frames
            /\ state_version' = state_version
            /\ Len(got) = Cardinality(Newer)
            /\ \A i \in Newer :
                 \E k \in 1..Len(got) : got[k] = progress_frames[i]
            /\ \A k \in 1..(Len(got) - 1) :
                 got[k].version < got[k + 1].version
            /\ V = None => got = progress_frames
            /\ (/\ V # None
                /\ progress_frames # <<>>
                /\ V.value < progress_frames[1].version)
               => got = progress_frames]_vars

\* C16 witness (Scenario C): versions 1 and 2 have been evicted and a call
\* with V = 1 has returned the whole remaining buffer, oldest frame first.
C16_Witness ==
    /\ frames_read # None
    /\ frames_read.since = [value |-> 1]
    /\ Len(frames_read.frames) = FrameCeiling
    /\ frames_read.frames = progress_frames
    /\ frames_read.frames[1].version = 3

\* C17: in every cycle that has started, with zero-based index c, the first
\* backend operation is the retention hint, "retain" when c mod 3 = 0 and
\* "discard" otherwise, no other hint follows in that cycle, and no step
\* of the cycle is issued before it.
C17_RetentionHintByCycleIndex ==
    /\ run.cycle_ops # <<>> =>
          /\ run.cycle_ops[1] =
               (IF (current_cycle - 1) % 3 = 0 THEN "retain" ELSE "discard")
          /\ \A i \in 2..Len(run.cycle_ops) :
               run.cycle_ops[i] \notin {"retain", "discard"}
    /\ pc \in {"epoch_check", "step_call", "in_step", "tab_epoch"} =>
          run.cycle_ops # <<>>

\* C17 witness: the fourth cycle (index 3) has been given "retain" and has
\* issued a step.
C17_Witness ==
    /\ current_cycle = 4
    /\ run.cycle_ops = <<"retain", "repopulate", "step">>

\* C18: in the first cycle no repopulation is issued; in every later cycle
\* that has started the repopulation is the second backend operation, right
\* after the retention hint, and only steps follow it.
C18_RepopulateEveryCycleButFirst ==
    run.cycle_ops # <<>> =>
        /\ run.cycle_ops[1] \in {"retain", "discard"}
        /\ current_cycle = 1 =>
              \A i \in 2..Len(run.cycle_ops) : run.cycle_ops[i] = "step"
        /\ current_cycle > 1 =>
              /\ Len(run.cycle_ops) >= 2
              /\ run.cycle_ops[2] = "repopulate"
              /\ \A i \in 3..Len(run.cycle_ops) : run.cycle_ops[i] = "step"

\* C18 witness: a run is over whose first cycle issued hint and steps only
\* and whose second cycle issued hint, repopulation, steps.
C18_Witness ==
    /\ EngineRunOver
    /\ current_cycle = 2
    /\ run.steps = 4
    /\ run.cycle_ops = <<"discard", "repopulate", "step">>

\* C19: an epoch whose diary could not be read, the file being absent or
\* the read raising, has raised total_api_calls by
\* unit_interaction_num x island_num.
C19_UnreadableDiaryAddsEstimate ==
    (driver = "engine" /\ ep.records = 1 /\ ep.diary \in {"absent", "error"})
    => total_api_calls =
          ep.calls0 + config.unit_interaction_num * config.island_num

\* C20: total_api_calls is never negative and no epoch lowers it.
C20_ApiCallsNeverDecrease ==
    /\ total_api_calls >= 0
    /\ ep.records = 1 => total_api_calls >= ep.calls0

\* C21: what a call of get_state() returns is consistent: whenever it
\* carries a last frame, the version of that frame is the returned
\* state_version.
C21_ReadIsConsistent ==
    (state_read # None /\ state_read.last_frame # None) =>
        state_read.last_frame.version = state_read.state_version

\* C22: a call of stop_fitting() leaves should_stop = TRUE and changes no
\* other field of the engine, and a second call leaves the engine exactly
\* as the first call left it.
C22_StopFittingIdempotent ==
    [][(run_no' = run_no /\ run'.stop_calls # run.stop_calls) =>
        /\ should_stop'
        /\ run.stop_calls >= 1 => should_stop
        /\ UNCHANGED <<config, on_progress_update, is_running,
                       current_cycle, total_cycles, best_score,
                       best_expression, total_api_calls, api_calls_log,
                       score_history, state_version, progress_frames,
                       final_best, pc, cycle, batch, log_message>>]_vars

\* C22 witness: stop_fitting() has been called twice while a run was going
\* on.
C22_Witness ==
    /\ driver = "engine"
    /\ is_running
    /\ run.stop_calls = 2
    /\ should_stop

\* C23: is_running is FALSE before any run, TRUE from the start of a run
\* until the run leaves its loops, and FALSE once the run is over, whatever
\* way it ended.
C23_RunEndsNotRunning ==
    /\ driver = "none" => ~is_running
    /\ (driver # "none" /\ pc \notin {"idle", "tab_done", "aborted",
                                       "finally", "tab_finish"})
          => is_running
    /\ pc \in {"idle", "tab_done", "aborted"} => ~is_running

\* C24: a run whose backend set-up failed has executed no cycle and no
\* backend operation and its failure has reached the caller of
\* run_fitting; a run that got past the set-up raises nothing to its
\* caller, whatever steps, queries or diary reads failed.
C24_ConfigurationFailureSurfaces ==
    /\ (driver = "engine" /\ run.exit = "failed") =>
          (run.steps = 0 /\ run.cycle_ops = <<>> /\ current_cycle = 0)
    /\ (EngineRunOver /\ run.exit = "failed") => run.surfaced
    /\ (EngineRunOver /\ run.exit # "failed") => ~run.surfaced

\* _update_api_calls is returning.
AuditStep == pc = "update_api_calls" /\ pc' # pc

\* The step appends exactly one record: the log grows by one at its end
\* (by none when it was at its ceiling, the oldest record leaving), and
\* what stays in it keeps its order.
OneRecordAppended ==
    LET n == Len(api_calls_log')
        m == Len(api_calls_log)
    IN  /\ n = (IF m < LogCeiling THEN m + 1 ELSE LogCeiling)
        /\ \A i \in 1..(n - 1) :
             api_calls_log'[i] = api_calls_log[m - (n - 1) + i]

\* The step changes nothing of the Run State but the counter and the log.
OnlyCounterAndLogChange ==
    UNCHANGED <<is_running, should_stop, current_cycle, total_cycles,
                best_score, best_expression, score_history, state_version,
                progress_frames, final_best>>

\* C25 (as claimed): every call of _update_api_calls appends exactly one
\* record whose cycle, score, expression and total_api_calls are
\* current_cycle, best_score, best_expression and total_api_calls as the
\* call leaves them.
C25_RecordCarriesRunState ==
    [][AuditStep =>
        LET r == api_calls_log'[Len(api_calls_log')]
        IN  /\ OneRecordAppended
            /\ r.cycle = current_cycle'
            /\ r.score = best_score'
            /\ r.expression = best_expression'
            /\ r.total_api_calls = total_api_calls']_vars

\* C25 (amended): every call of _update_api_calls, whether the diary was
\* scanned, absent or unreadable, appends exactly one record whose cycle,
\* score and total_api_calls are current_cycle, best_score and
\* total_api_calls as the call leaves them, and whose expression is
\* best_expression, or a fixed placeholder text when best_expression is
\* empty; the call changes nothing else but total_api_calls.
C25_RecordCarriesRunStateOrPlaceholder ==
    [][AuditStep =>
        LET r == api_calls_log'[Len(api_calls_log')]
        IN  /\ OneRecordAppended
            /\ OnlyCounterAndLogChange
            /\ r.cycle = current_cycle'
            /\ r.score = best_score'
            /\ r.expression = (IF best_expression' # ""
                               THEN best_expression'
                               ELSE "no_valid_expression_yet")
            /\ r.total_api_calls = total_api_calls']_vars

\* C25 witness: the second call of a run has appended the record of an
\* epoch that had no expression, after the record of one that had.
C25_Witness ==
    /\ pc = "frame_append"
    /\ ep.records = 1
    /\ best_expression = ""
    /\ Len(api_calls_log) = 2
    /\ api_calls_log[1].expression = "f1"
    /\ api_calls_log[2].expression = "no_valid_expression_yet"

\* C26: every record of api_calls_log has a status among success,
\* no_expression and unknown; the record a call appends has status success
\* when best_expression is non-empty at that moment and no_expression when
\* it is empty.
C26_RecordStatus ==
    /\ [](\A i \in 1..Len(api_calls_log) :
            api_calls_log[i].status \in
                {"success", "no_expression", "unknown"})
    /\ [][AuditStep =>
            api_calls_log'[Len(api_calls_log')].status =
                (IF best_expression # "" THEN "success"
                 ELSE "no_expression")]_vars

\* C26 witness: the log holds a success record followed by a
\* no_expression record.
C26_Witness ==
    /\ Len(api_calls_log) = 2
    /\ api_calls_log[1].status = "success"
    /\ api_calls_log[2].status = "no_expression"

\* C27: state_version never decreases, the start of a run leaves it and
\* progress_frames as they are, every appended frame gets the version
\* state_version + 1, and the versions in progress_frames are strictly
\* increasing.
C27_VersionsContinueAcrossRuns ==
    /\ [][state_version' >= state_version]_vars
    /\ [][run_no' # run_no =>
            (state_version' = state_version
             /\ progress_frames' = progress_frames)]_vars
    /\ [][(pc = "frame_append" /\ pc' # pc) =>
            progress_frames'[Len(progress_frames')].version =
                state_version + 1]_vars
    /\ [](\A i, j \in 1..Len(progress_frames) :
            i < j => progress_frames[i].version < progress_frames[j].version)

\* C27 witness: the first epoch of a second run has appended a frame whose
\* version follows those of the first run.
C27_Witness ==
    /\ run_no = 2
    /\ pc = "epoch_tail"
    /\ run.steps = 1
    /\ state_version >= 2
    /\ progress_frames[Len(progress_frames)].version = state_version

\* C28: the start of a run clears should_stop; while a run executes
\* should_stop is set only if stop_fitting() was called (or the step was
\* interrupted) after that reset; a run that found should_stop set at its
\* start and saw no stop request afterwards executes its first cycle and
\* first step and runs to completion.
C28_StopBeforeRunNotCarried ==
    /\ [][run_no' # run_no => ~should_stop']_vars
    /\ []((driver = "engine" /\ pc # "idle" /\ should_stop) =>
            (run.stop_calls > 0 \/ ep.step = "interrupt"))
    /\ []((/\ EngineRunOver
           /\ run.stop_before
           /\ run.stop_calls = 0
           /\ run.exit # "failed"
           /\ ep.step # "interrupt")
          => (run.steps >= 1 /\ run.exit = "completed" /\ ~should_stop))

\* C28 witness: stop_fitting() was called before the first run, and the
\* run has executed every configured step.
C28_Witness ==
    /\ EngineRunOver
    /\ run_no = 1
    /\ run.stop_before
    /\ run.stop_calls = 0
    /\ run.exit = "completed"
    /\ run.steps = ConfiguredSteps

\* C29: a run issues at most cycle_num x unit_interaction_num backend
\* steps; every step is issued at a pair (cycle, batch) within the
\* configured ranges that is lexicographically greater than the pair of
\* the step before, so no pair is visited twice; and a run that has been
\* started comes to its end.
C29_StepsBoundedAndRunTerminates ==
    /\ [](driver = "engine" => run.steps <= ConfiguredSteps)
    /\ []((driver = "engine" /\ ep.active) =>
            /\ ep.cycle \in 0..(config.cycle_num - 1)
            /\ ep.batch \in 0..(config.unit_interaction_num - 1))
    /\ [][(pc = "step_call" /\ pc' = "in_step" /\ ep.active) =>
            \/ ep.cycle < ep'.cycle
            \/ ep.cycle = ep'.cycle /\ ep.batch < ep'.batch]_vars
    /\ (driver = "engine" /\ pc # "idle") ~> (pc = "idle")

\* C29 witness: a run in which steps raised has come to its end after
\* exactly the configured number of steps.
C29_Witness ==
    /\ EngineRunOver
    /\ run.exit = "completed"
    /\ run.failed_steps = 2
    /\ run.steps = ConfiguredSteps
    /\ run.steps >= 3

\* C30: an epoch whose progress callback raised keeps its frame and its
\* audit record and does not fail the run; and once such an epoch has had
\* best_score >= shutdown_score, no further cycle starts.
C30_CallbackFailureKeepsThreshold ==
    /\ (driver = "engine" /\ ep.callback_raised) =>
          (ep.frames = 1 /\ ep.records = 1 /\ run.exit # "failed")
    /\ run.callback_threshold > 0 =>
          current_cycle = run.callback_threshold

\* Sanity of the model: the instance of C2 for run_fitting and the NPZ tab,
\* whose epoch handlers catch the exception and continue.
StepFailureCapsNothingWhereCaught ==
    driver # "canvas" => C2_StepFailureCapsNothing

====
